---- MODULE Spec2Model ----
(***************************************************************************)
(* The ExpenseTracker screen (src/app/index.js, and its TypeScript twin    *)
(* src/unnamed/part_000) as a state machine: the component's seven state   *)
(* hooks, the native dialogs raised through Alert.alert, the HTTP requests *)
(* that are outstanding, and the remote collection they act on.            *)
(*                                                                         *)
(* Texts are sequences of one-character strings, so that parseFloat and    *)
(* String.prototype.trim are computed rather than assumed.  The `date`     *)
(* field of a record is left out: no handler reads it.                     *)
(***************************************************************************)
EXTENDS Integers, Sequences, FiniteSets

VARIABLES
    mounted,         \* the mount effect (useEffect, []) has run
    expenses,        \* useState([])      : sequence of Expense records
    amount,          \* useState('')      : pending amount text
    description,     \* useState('')      : pending description text
    category,        \* useState('Food')  : pending category
    showAddModal,    \* useState(false)
    selectedFilter,  \* useState('All')
    loading,         \* useState(false)   : the in-flight flag
    dialogs,         \* native dialogs raised by Alert.alert and still open
    inflight,        \* fetch() calls whose continuation has not run yet
    issued,          \* number of POST and DELETE requests sent so far
    server,          \* the remote collection, in insertion order
    nextId           \* the id the remote service assigns next

vars == <<mounted, expenses, amount, description, category, showAddModal,
          selectedFilter, loading, dialogs, inflight, issued, server, nextId>>

-----------------------------------------------------------------------------
(* Bounds of the model *)

\* POST and DELETE requests the user gets to send in one run
MaxRequests == 2

-----------------------------------------------------------------------------
(* Constants of the program *)

categories ==
    <<"Food", "Transportation", "Entertainment", "Shopping", "Bills", "Health", "Other">>

\* the categories the user picks from in this model
UsedCategories == {categories[1], categories[2]}

\* the filter bar: ['All', ...categories]
Filters == {"All"} \cup UsedCategories

\* what the user types into the amount and the description field
AmountTexts == { <<"1", "2">> }
DescriptionTexts == { <<" ", "c", " ">> }

\* the same, for the runs that are about the validation of the form
FormAmountTexts ==
    { <<>>, <<"1", "2">>, <<"1", "2", "a", "b", "c">>, <<"a", "b", "c">> }
FormDescriptionTexts ==
    { <<>>, <<" ", " ">>, <<" ", "c", " ">> }

\* what GET /expenses holds before the screen is opened
InitialCollection ==
    << [id |-> 1, amount |-> 40, description |-> <<"b">>, category |-> "Transportation"] >>

-----------------------------------------------------------------------------
(* Pure helpers *)

Digits == {"0", "1", "2", "3", "4", "5", "6", "7", "8", "9"}

DigitValue(c) ==
    CASE c = "0" -> 0 [] c = "1" -> 1 [] c = "2" -> 2 [] c = "3" -> 3 [] c = "4" -> 4
      [] c = "5" -> 5 [] c = "6" -> 6 [] c = "7" -> 7 [] c = "8" -> 8 [] c = "9" -> 9

WhiteSpace == {" "}

\* the value parseFloat gives for a text without digits
NaN == -1

RECURSIVE SkipWhiteSpace(_)
SkipWhiteSpace(s) ==
    IF s # <<>> /\ Head(s) \in WhiteSpace THEN SkipWhiteSpace(Tail(s)) ELSE s

RECURSIVE DigitPrefix(_, _, _)
\* reads the longest run of digits at the front of s; acc is the value so far
DigitPrefix(s, acc, seen) ==
    IF s # <<>> /\ Head(s) \in Digits
    THEN DigitPrefix(Tail(s), 10 * acc + DigitValue(Head(s)), TRUE)
    ELSE IF seen THEN acc ELSE NaN

\* parseFloat on texts made of digits, letters and blanks: leading white space
\* is skipped, the longest numeric prefix is converted, the rest is ignored
parseFloat(s) == DigitPrefix(SkipWhiteSpace(s), 0, FALSE)

isNaN(x) == x = NaN

RECURSIVE DropTrailingWhiteSpace(_)
DropTrailingWhiteSpace(s) ==
    IF s # <<>> /\ s[Len(s)] \in WhiteSpace
    THEN DropTrailingWhiteSpace(SubSeq(s, 1, Len(s) - 1))
    ELSE s

\* String.prototype.trim
trim(s) == DropTrailingWhiteSpace(SkipWhiteSpace(s))

\* a filter that keeps the records of the other categories
FilterByCategoryNegated(list, c) == SelectSeq(list, LAMBDA e : e.category # c)

\* Array.prototype.filter with the predicate expense.category === filter
RECURSIVE FilterByCategory(_, _)
FilterByCategory(list, c) ==
    IF list = <<>> THEN <<>>
    ELSE IF Head(list).category = c
         THEN <<Head(list)>> \o FilterByCategory(Tail(list), c)
         ELSE FilterByCategory(Tail(list), c)

\* a delete that drops the record and everything listed after it
FilterOutIdTruncating(list, id) ==
    IF \E k \in 1..Len(list) : list[k].id = id
    THEN SubSeq(list, 1, (CHOOSE k \in 1..Len(list) :
                            list[k].id = id /\ \A j \in 1..(k - 1) : list[j].id # id) - 1)
    ELSE list

\* Array.prototype.filter with the predicate expense.id !== id
RECURSIVE FilterOutId(_, _)
FilterOutId(list, id) ==
    IF list = <<>> THEN <<>>
    ELSE IF Head(list).id # id
         THEN <<Head(list)>> \o FilterOutId(Tail(list), id)
         ELSE FilterOutId(Tail(list), id)

\* getFilteredExpenses, for a given list and filter
FilteredOf(list, filter) ==
    IF filter = "All" THEN list ELSE FilterByCategory(list, filter)

getFilteredExpenses == FilteredOf(expenses, selectedFilter)

\* filtered.reduce((total, expense) => total + expense.amount, 0)
RECURSIVE Reduce(_, _)
Reduce(list, total) ==
    IF list = <<>> THEN total ELSE Reduce(Tail(list), total + Head(list).amount)

\* a total that is taken over the whole list, whatever the filter
TotalOfUnfiltered(list, filter) == Reduce(list, 0)

TotalOf(list, filter) == Reduce(FilteredOf(list, filter), 0)

getTotalAmount == TotalOf(expenses, selectedFilter)

-----------------------------------------------------------------------------
(* Requests and dialogs *)

NoBody == [amount |-> 0, description |-> <<>>, category |-> "none"]

\* a fetch() call: status is "sent" until the service (or the transport)
\* settles it as "ok", "http" (non-2xx status) or "network" (fetch rejects)
Request(kind, id, body) ==
    [kind |-> kind, id |-> id, body |-> body, status |-> "sent", data |-> <<>>]

ErrorDialog(message) == [title |-> "Error", message |-> message, id |-> 0]

ConfirmDialog(id) ==
    [title |-> "Delete Expense",
     message |-> "Are you sure you want to delete this expense?", id |-> id]

\* error.message in the catch block of the handler of a request of this kind
ErrorMessage(r) ==
    IF r.status = "network" THEN "Network request failed"
    ELSE CASE r.kind = "GET"    -> "Failed to fetch expenses"
           [] r.kind = "POST"   -> "Failed to add expense"
           [] r.kind = "DELETE" -> "Failed to delete expense"

RemoveAt(s, i) == SubSeq(s, 1, i - 1) \o SubSeq(s, i + 1, Len(s))

\* touches reach the screen only when no native dialog is open
ScreenActive == mounted /\ dialogs = <<>>

-----------------------------------------------------------------------------
Init ==
    /\ mounted = FALSE
    /\ expenses = <<>>
    /\ amount = <<>>
    /\ description = <<>>
    /\ category = "Food"
    /\ showAddModal = FALSE
    /\ selectedFilter = "All"
    /\ loading = FALSE
    /\ dialogs = <<>>
    /\ inflight = <<>>
    /\ issued = 0
    /\ server = InitialCollection
    /\ nextId = Len(InitialCollection) + 1

\* fetchExpenses up to its await, called by the mount effect
fetchExpenses ==
    /\ ~mounted
    /\ mounted' = TRUE
    /\ loading' = TRUE
    /\ inflight' = Append(inflight, Request("GET", 0, NoBody))
    /\ UNCHANGED <<expenses, amount, description, category, showAddModal,
                   selectedFilter, dialogs, issued, server, nextId>>


\* the + button: onPress={() => setShowAddModal(true)}
openAddModal ==
    /\ ScreenActive
    /\ ~showAddModal
    /\ showAddModal' = TRUE
    /\ UNCHANGED <<mounted, expenses, amount, description, category,
                   selectedFilter, loading, dialogs, inflight, issued, server, nextId>>

\* the modal's close button and onRequestClose: setShowAddModal(false)
closeAddModal ==
    /\ ScreenActive
    /\ showAddModal
    /\ showAddModal' = FALSE
    /\ UNCHANGED <<mounted, expenses, amount, description, category,
                   selectedFilter, loading, dialogs, inflight, issued, server, nextId>>

\* the amount field: onChangeText={setAmount}
setAmount(text) ==
    /\ ScreenActive
    /\ showAddModal
    /\ amount' = text
    /\ UNCHANGED <<mounted, expenses, description, category, showAddModal,
                   selectedFilter, loading, dialogs, inflight, issued, server, nextId>>

\* the description field: onChangeText={setDescription}
setDescription(text) ==
    /\ ScreenActive
    /\ showAddModal
    /\ description' = text
    /\ UNCHANGED <<mounted, expenses, amount, category, showAddModal,
                   selectedFilter, loading, dialogs, inflight, issued, server, nextId>>

\* a category button of the modal: onPress={() => setCategory(cat)}
setCategory(cat) ==
    /\ ScreenActive
    /\ showAddModal
    /\ category' = cat
    /\ UNCHANGED <<mounted, expenses, amount, description, showAddModal,
                   selectedFilter, loading, dialogs, inflight, issued, server, nextId>>

\* a button of the filter bar: onPress={() => setSelectedFilter(filterCategory)}
setSelectedFilter(filterCategory) ==
    /\ ScreenActive
    /\ ~showAddModal
    /\ selectedFilter' = filterCategory
    /\ UNCHANGED <<mounted, expenses, amount, description, category,
                   showAddModal, loading, dialogs, inflight, issued, server, nextId>>

\* the two validation tests of addExpense; "" when the input passes both
ValidationError(amountText, descriptionText) ==
    IF amountText = <<>> \/ descriptionText = <<>>
    THEN "Please fill in all fields"
    ELSE IF isNaN(parseFloat(amountText))
         THEN "Please enter a valid amount"
         ELSE ""

\* the object addExpense posts
newExpense(amountText, descriptionText, cat) ==
    [amount |-> parseFloat(amountText), description |-> trim(descriptionText),
     category |-> cat]

\* addExpense up to its await, called by the modal's "Add Expense" button
addExpense ==
    /\ ScreenActive
    /\ showAddModal
    /\ IF ValidationError(amount, description) # ""
       THEN /\ dialogs' = Append(dialogs, ErrorDialog(ValidationError(amount, description)))
            /\ UNCHANGED <<loading, inflight, issued>>
       ELSE /\ issued < MaxRequests
            /\ issued' = issued + 1
            /\ loading' = TRUE
            /\ inflight' = Append(inflight,
                                  Request("POST", 0, newExpense(amount, description, category)))
            /\ UNCHANGED dialogs
    /\ UNCHANGED <<mounted, expenses, amount, description, category, showAddModal,
                   selectedFilter, server, nextId>>

\* a delete button that sends the request without asking
deleteExpenseUnprompted(id) ==
    /\ ScreenActive
    /\ ~showAddModal
    /\ ~loading
    /\ \E i \in 1..Len(getFilteredExpenses) : getFilteredExpenses[i].id = id
    /\ issued < MaxRequests
    /\ issued' = issued + 1
    /\ loading' = TRUE
    /\ inflight' = Append(inflight, Request("DELETE", id, NoBody))
    /\ UNCHANGED <<mounted, expenses, amount, description, category, showAddModal,
                   selectedFilter, dialogs, server, nextId>>

\* deleteExpense(item.id), called by the delete button of a rendered item; the
\* list is rendered only while loading is false, and shows getFilteredExpenses()
deleteExpense(id) ==
    /\ ScreenActive
    /\ ~showAddModal
    /\ ~loading
    /\ \E i \in 1..Len(getFilteredExpenses) : getFilteredExpenses[i].id = id
    /\ dialogs' = Append(dialogs, ConfirmDialog(id))
    /\ UNCHANGED <<mounted, expenses, amount, description, category, showAddModal,
                   selectedFilter, loading, inflight, issued, server, nextId>>

\* the dialog the user sees: the one raised last
TopDialog == dialogs[Len(dialogs)]

\* the 'Cancel' button of the confirmation prompt: no onPress
pressCancel ==
    /\ dialogs # <<>>
    /\ TopDialog.title = "Delete Expense"
    /\ dialogs' = SubSeq(dialogs, 1, Len(dialogs) - 1)
    /\ UNCHANGED <<mounted, expenses, amount, description, category, showAddModal,
                   selectedFilter, loading, inflight, issued, server, nextId>>

\* deleteExpenseAPI(id) up to its await, called by the prompt's 'Delete' button
deleteExpenseAPI ==
    /\ dialogs # <<>>
    /\ TopDialog.title = "Delete Expense"
    /\ issued < MaxRequests
    /\ issued' = issued + 1
    /\ dialogs' = SubSeq(dialogs, 1, Len(dialogs) - 1)
    /\ loading' = TRUE
    /\ inflight' = Append(inflight, Request("DELETE", TopDialog.id, NoBody))
    /\ UNCHANGED <<mounted, expenses, amount, description, category, showAddModal,
                   selectedFilter, server, nextId>>

\* the OK button of an error alert
dismissAlert ==
    /\ dialogs # <<>>
    /\ TopDialog.title = "Error"
    /\ dialogs' = SubSeq(dialogs, 1, Len(dialogs) - 1)
    /\ UNCHANGED <<mounted, expenses, amount, description, category, showAddModal,
                   selectedFilter, loading, inflight, issued, server, nextId>>

-----------------------------------------------------------------------------
(* The remote collection endpoint *)

HasId(list, id) == \E k \in 1..Len(list) : list[k].id = id

\* the record POST /expenses creates: the posted fields and a fresh id
Saved(body, id) ==
    [id |-> id, amount |-> body.amount, description |-> body.description,
     category |-> body.category]

\* the service answers request i with a success status
serviceAnswers(i) ==
    /\ inflight[i].status = "sent"
    /\ CASE inflight[i].kind = "GET" ->
              /\ inflight' = [inflight EXCEPT ![i].status = "ok", ![i].data = server]
              /\ UNCHANGED <<server, nextId>>
         [] inflight[i].kind = "POST" ->
              /\ inflight' = [inflight EXCEPT ![i].status = "ok",
                                  ![i].data = <<Saved(inflight[i].body, nextId)>>]
              /\ server' = Append(server, Saved(inflight[i].body, nextId))
              /\ nextId' = nextId + 1
         [] inflight[i].kind = "DELETE" ->
              /\ HasId(server, inflight[i].id)
              /\ inflight' = [inflight EXCEPT ![i].status = "ok"]
              /\ server' = SelectSeq(server, LAMBDA e : e.id # inflight[i].id)
              /\ UNCHANGED nextId
    /\ UNCHANGED <<mounted, expenses, amount, description, category, showAddModal,
                   selectedFilter, loading, dialogs, issued>>

\* request i fails and leaves the collection as it was: the service answers
\* with a non-2xx status ("http"), or fetch itself rejects ("network")
serviceFails(i, how) ==
    /\ inflight[i].status = "sent"
    /\ inflight' = [inflight EXCEPT ![i].status = how]
    /\ UNCHANGED <<mounted, expenses, amount, description, category, showAddModal,
                   selectedFilter, loading, dialogs, issued, server, nextId>>

-----------------------------------------------------------------------------
(* The handlers after their await *)

\* fetchExpenses, response.ok: setExpenses(data); finally setLoading(false)
fetchExpensesThen(i) ==
    /\ inflight[i].kind = "GET"
    /\ inflight[i].status = "ok"
    /\ expenses' = inflight[i].data
    /\ loading' = FALSE
    /\ inflight' = RemoveAt(inflight, i)
    /\ UNCHANGED <<mounted, amount, description, category, showAddModal,
                   selectedFilter, dialogs, issued, server, nextId>>

\* a create that puts the saved record at the end of the list
PrependAtEnd(savedExpense, prev) == prev \o <<savedExpense>>

\* setExpenses(prev => [savedExpense, ...prev])
Prepend(savedExpense, prev) == <<savedExpense>> \o prev

\* addExpense, response.ok: the list gets the saved record, the form is reset
\* and closed; finally setLoading(false)
addExpenseThen(i) ==
    /\ inflight[i].kind = "POST"
    /\ inflight[i].status = "ok"
    /\ expenses' = Prepend(inflight[i].data[1], expenses)
    /\ amount' = <<>>
    /\ description' = <<>>
    /\ category' = "Food"
    /\ showAddModal' = FALSE
    /\ loading' = FALSE
    /\ inflight' = RemoveAt(inflight, i)
    /\ UNCHANGED <<mounted, selectedFilter, dialogs, issued, server, nextId>>

\* deleteExpenseAPI, response.ok:
\* setExpenses(prev => prev.filter(expense => expense.id !== id));
\* finally setLoading(false)
deleteExpenseAPIThen(i) ==
    /\ inflight[i].kind = "DELETE"
    /\ inflight[i].status = "ok"
    /\ expenses' = FilterOutId(expenses, inflight[i].id)
    /\ loading' = FALSE
    /\ inflight' = RemoveAt(inflight, i)
    /\ UNCHANGED <<mounted, amount, description, category, showAddModal,
                   selectedFilter, dialogs, issued, server, nextId>>

\* a catch block that also closes the form
handlerCatchClosingForm(i) ==
    /\ inflight[i].status \in {"http", "network"}
    /\ dialogs' = Append(dialogs, ErrorDialog(ErrorMessage(inflight[i])))
    /\ showAddModal' = FALSE
    /\ loading' = FALSE
    /\ inflight' = RemoveAt(inflight, i)
    /\ UNCHANGED <<mounted, expenses, amount, description, category,
                   selectedFilter, issued, server, nextId>>

\* a catch block after which loading is not cleared
handlerCatchKeepsLoading(i) ==
    /\ inflight[i].status \in {"http", "network"}
    /\ dialogs' = Append(dialogs, ErrorDialog(ErrorMessage(inflight[i])))
    /\ inflight' = RemoveAt(inflight, i)
    /\ UNCHANGED <<mounted, expenses, amount, description, category, showAddModal,
                   selectedFilter, loading, issued, server, nextId>>

\* the catch and finally blocks of the three handlers:
\* Alert.alert('Error', error.message); setLoading(false)
handlerCatch(i) ==
    /\ inflight[i].status \in {"http", "network"}
    /\ dialogs' = Append(dialogs, ErrorDialog(ErrorMessage(inflight[i])))
    /\ loading' = FALSE
    /\ inflight' = RemoveAt(inflight, i)
    /\ UNCHANGED <<mounted, expenses, amount, description, category, showAddModal,
                   selectedFilter, issued, server, nextId>>

-----------------------------------------------------------------------------
\* every step but the typing into the two text fields
Step ==
    \/ fetchExpenses
    \/ openAddModal
    \/ closeAddModal
    \/ \E cat \in UsedCategories : setCategory(cat)
    \/ \E filterCategory \in Filters : setSelectedFilter(filterCategory)
    \/ addExpense
    \/ \E id \in {expenses[k].id : k \in 1..Len(expenses)} : deleteExpense(id)
    \/ pressCancel
    \/ deleteExpenseAPI
    \/ dismissAlert
    \/ \E i \in 1..Len(inflight) : serviceAnswers(i)
    \/ \E i \in 1..Len(inflight), how \in {"http", "network"} : serviceFails(i, how)
    \/ \E i \in 1..Len(inflight) : fetchExpensesThen(i)
    \/ \E i \in 1..Len(inflight) : addExpenseThen(i)
    \/ \E i \in 1..Len(inflight) : deleteExpenseAPIThen(i)
    \/ \E i \in 1..Len(inflight) : handlerCatch(i)

Next ==
    \/ \E text \in AmountTexts : setAmount(text)
    \/ \E text \in DescriptionTexts : setDescription(text)
    \/ Step

Spec == Init /\ [][Next]_vars

\* the same machine, with the texts that exercise the validation of the form
FormNext ==
    \/ \E text \in FormAmountTexts : setAmount(text)
    \/ \E text \in FormDescriptionTexts : setDescription(text)
    \/ Step

FormSpec == Init /\ [][FormNext]_vars

\* the runs in which no request fails: the service answers every request it
\* answers with a success status, and no catch block runs
SuccessNext ==
    \/ \E text \in AmountTexts : setAmount(text)
    \/ \E text \in DescriptionTexts : setDescription(text)
    \/ fetchExpenses
    \/ openAddModal
    \/ closeAddModal
    \/ \E cat \in UsedCategories : setCategory(cat)
    \/ \E filterCategory \in Filters : setSelectedFilter(filterCategory)
    \/ addExpense
    \/ \E id \in {expenses[k].id : k \in 1..Len(expenses)} : deleteExpense(id)
    \/ pressCancel
    \/ deleteExpenseAPI
    \/ dismissAlert
    \/ \E i \in 1..Len(inflight) : serviceAnswers(i)
    \/ \E i \in 1..Len(inflight) : fetchExpensesThen(i)
    \/ \E i \in 1..Len(inflight) : addExpenseThen(i)
    \/ \E i \in 1..Len(inflight) : deleteExpenseAPIThen(i)

SuccessSpec == Init /\ [][SuccessNext]_vars

\* the service or the transport settles a request that was sent
ServiceSettles ==
    \/ \E i \in 1..Len(inflight) : serviceAnswers(i)
    \/ \E i \in 1..Len(inflight), how \in {"http", "network"} : serviceFails(i, how)

\* the handler of a settled request runs on from its await
HandlerResumes ==
    \/ \E i \in 1..Len(inflight) : fetchExpensesThen(i)
    \/ \E i \in 1..Len(inflight) : addExpenseThen(i)
    \/ \E i \in 1..Len(inflight) : deleteExpenseAPIThen(i)
    \/ \E i \in 1..Len(inflight) : handlerCatch(i)

\* the machine of Spec where every request that was sent is settled in the
\* end, and the event loop runs the continuation of every settled request
FairSpec == Spec /\ WF_vars(ServiceSettles) /\ WF_vars(HandlerResumes)

-----------------------------------------------------------------------------
(* Properties *)

\* the continuation of request i runs in this step
Settles(i) == inflight' = RemoveAt(inflight, i)

\* a text that is a number: digits and nothing else
IsNumber(text) == text # <<>> /\ \A k \in 1..Len(text) : text[k] \in Digits

\* C1: a submit with an empty description, or with an amount text that is not
\* a number, sends no POST request and leaves the expense list as it was.
C1_InvalidSubmitSendsNothing ==
    [][(addExpense /\ (description = <<>> \/ ~IsNumber(amount)))
          => UNCHANGED <<inflight, expenses>>]_vars

\* C2: the step that handles a successful create puts the record the service
\* returned at index 1, followed by the previous list unchanged, empties the
\* amount and the description and closes the add dialog.
C2_CreatePrependsSaved ==
    [][\A i \in 1..Len(inflight) :
          (inflight[i].kind = "POST" /\ inflight[i].status = "ok" /\ Settles(i))
          => /\ Len(expenses') = Len(expenses) + 1
             /\ expenses'[1] = inflight[i].data[1]
             /\ \A k \in 1..Len(expenses) : expenses'[k + 1] = expenses[k]
             /\ amount' = <<>>
             /\ description' = <<>>
             /\ showAddModal' = FALSE]_vars

\* a create was handled while the list already held the record of the service
C2_Witness ==
    /\ Len(expenses) = 2
    /\ expenses[1].id = 2
    /\ expenses[2].id = 1
    /\ inflight = <<>>
    /\ amount = <<>>
    /\ ~showAddModal

\* C3: the step that handles a successful delete of id leaves exactly the
\* records whose id differs from id, in the order they had.
C3_DeleteRemovesOnlyId ==
    [][\A i \in 1..Len(inflight) :
          (inflight[i].kind = "DELETE" /\ inflight[i].status = "ok" /\ Settles(i))
          => expenses' = SelectSeq(expenses, LAMBDA e : e.id # inflight[i].id)]_vars

\* a delete of record 1 and a create were both sent and handled: record 1 is
\* gone from the list and the created record is still listed
C3_Witness ==
    /\ inflight = <<>>
    /\ issued = 2
    /\ ~HasId(server, 1)
    /\ ~HasId(expenses, 1)
    /\ HasId(expenses, 2)

\* C4: the step that handles a failed load, create or delete raises one error
\* alert and leaves the list, the pending amount, description and category,
\* the add dialog and the filter as they were.
C4_FailureChangesNothing ==
    [][\A i \in 1..Len(inflight) :
          (inflight[i].status \in {"http", "network"} /\ Settles(i))
          => /\ Len(dialogs') = Len(dialogs) + 1
             /\ SubSeq(dialogs', 1, Len(dialogs)) = dialogs
             /\ dialogs'[Len(dialogs')].title = "Error"
             /\ ~loading'
             /\ UNCHANGED <<expenses, amount, description, category,
                            showAddModal, selectedFilter>>]_vars

\* a failed create was handled with the form filled in and open, and a
\* non-empty list
C4_Witness ==
    /\ dialogs # <<>>
    /\ dialogs[Len(dialogs)].message = "Failed to add expense"
    /\ showAddModal
    /\ amount # <<>>
    /\ expenses # <<>>

\* a DELETE request is sent in this step
SendsDelete ==
    /\ Len(inflight') = Len(inflight) + 1
    /\ inflight'[Len(inflight')].kind = "DELETE"

\* C5: a DELETE request for an id is sent only by the 'Delete' button of the
\* confirmation prompt for that id, which sends exactly one; the 'Cancel'
\* button sends nothing and leaves the list and the in-flight flag alone.
C5_DeleteOnlyAfterConfirm ==
    [][/\ SendsDelete
          => /\ dialogs # <<>>
             /\ TopDialog = ConfirmDialog(inflight'[Len(inflight')].id)
             /\ dialogs' = SubSeq(dialogs, 1, Len(dialogs) - 1)
             /\ inflight' = Append(inflight, Request("DELETE", TopDialog.id, NoBody))
       /\ deleteExpenseAPI => SendsDelete
       /\ pressCancel => UNCHANGED <<inflight, expenses, loading>>]_vars

\* the user confirmed a prompt and its DELETE request is outstanding
C5_Witness ==
    /\ dialogs = <<>>
    /\ \E i \in 1..Len(inflight) : inflight[i].kind = "DELETE" /\ inflight[i].id = 1

\* C6: while a request is unresolved, the in-flight flag is set.
C6_OutstandingImpliesLoading ==
    (\E i \in 1..Len(inflight) : inflight[i].status = "sent") => loading

\* the positions of the list whose record the filter selects
Selected(filter) ==
    {j \in 1..Len(expenses) : filter = "All" \/ expenses[j].category = filter}

\* C7: for "All" the filtered view is the list; for a category it holds the
\* records of that category, each once, in the order they have in the list.
C7_FilteredViewIsProjection ==
    /\ getFilteredExpenses = FilteredOf(expenses, selectedFilter)
    /\ \A filter \in Filters :
          LET view == FilteredOf(expenses, filter)
          IN  /\ filter = "All" => view = expenses
              /\ Len(view) = Cardinality(Selected(filter))
              /\ \A j \in Selected(filter) :
                    view[Cardinality({i \in Selected(filter) : i <= j})] = expenses[j]

\* a category is selected that some records have and an earlier one has not
C7_Witness ==
    /\ selectedFilter # "All"
    /\ Len(expenses) >= 2
    /\ expenses[1].category # selectedFilter
    /\ expenses[2].category = selectedFilter

RECURSIVE SumAmounts(_)
\* the sum of amount over a set of positions of the list
SumAmounts(positions) ==
    IF positions = {} THEN 0
    ELSE LET j == CHOOSE j \in positions : TRUE
         IN  expenses[j].amount + SumAmounts(positions \ {j})

\* C8: the displayed total is the sum of amount over the records the active
\* filter selects, and 0 when it selects none.
C8_TotalIsSumOfSelected ==
    /\ getTotalAmount = SumAmounts(Selected(selectedFilter))
    /\ Selected(selectedFilter) = {} => getTotalAmount = 0

\* a category is selected that has some of the records, not all
C8_Witness ==
    /\ selectedFilter # "All"
    /\ getTotalAmount > 0
    /\ getTotalAmount < TotalOf(expenses, "All")

\* C9: every POST request carries a description that is not empty.
C9_PostedDescriptionNonEmpty ==
    \A i \in 1..Len(inflight) :
        inflight[i].kind = "POST" => inflight[i].body.description # <<>>

\* C10: no two records of the list have the same id.
C10_NoDuplicateIds ==
    \A j, k \in 1..Len(expenses) : j # k => expenses[j].id # expenses[k].id

\* the ids of the records of a list
IdsOf(list) == {list[k].id : k \in 1..Len(list)}

\* C11: when the load and every create and delete sent so far have succeeded
\* and been handled, the list holds the ids the remote collection holds.
C11_ListMatchesCollection ==
    (mounted /\ inflight = <<>>) => IdsOf(expenses) = IdsOf(server)

\* C12: with no request outstanding the in-flight flag is clear; when every
\* request is settled in the end, a set flag is cleared in the end; a submit
\* that fails validation leaves the flag as it was.
C12_FlagClearedWhenIdle ==
    /\ [](inflight = <<>> => ~loading)
    /\ loading ~> ~loading
    /\ [][(addExpense /\ ValidationError(amount, description) # "")
             => UNCHANGED <<loading, inflight>>]_vars

\* every request that was sent has been handled, one of them with a failure,
\* and the flag is clear
C12_Witness ==
    /\ mounted
    /\ inflight = <<>>
    /\ issued = MaxRequests
    /\ dialogs # <<>>
    /\ ~loading

====
